---- MODULE Spec2Model ----
(***************************************************************************)
(* Close-interception reflection workflow of HelloWorldActivity            *)
(* (src/activity.py).  One activity instance on a single-threaded GLib     *)
(* main loop: close requests, prompt timers, reflection dialogs.           *)
(*                                                                         *)
(* Python strings are TLA+ strings; None and absent dictionary keys are    *)
(* tagged records, because TLC cannot compare values of different types.   *)
(* Python 3 semantics are assumed (gi.repository / sugar3).                *)
(***************************************************************************)
EXTENDS Integers, Sequences, FiniteSets, TLC

VARIABLES
    reflection_complete, \* self._reflection_complete
    metadata,            \* self.metadata: function key -> string; empty = falsy
    timers,              \* pending GLib timeouts, each holding its context
    dialogs,             \* ReflectionDialog windows that are shown
    shutdownLog,         \* calls of activity.Activity.close, in order
    saveCount,           \* calls of self.save()
    fetchCount,          \* calls of self._fetch_history()
    queryCount,          \* calls of datastore.find
    excCount,            \* exceptions that left close()
    closeCount,          \* close requests received from the host
    store,               \* records the datastore returns for this bundle
    bundle_id,           \* what self.get_bundle_id() returns ("" = None)
    answers,             \* the texts the user saved, in order
    effects,             \* what the last handler did, in program order
    last                 \* the last event handled by the main loop

vars == <<reflection_complete, metadata, timers, dialogs, shutdownLog,
          saveCount, fetchCount, queryCount, excCount, closeCount, store,
          bundle_id, answers, effects, last>>

(***************************************************************************)
(* Bounds                                                                  *)
(***************************************************************************)
MaxCloses == 2
MaxRecords == 2
MaxHistory == 3

(***************************************************************************)
(* Program constants                                                       *)
(***************************************************************************)
HistoryLimit == 5
GenericPrompt == "This looks like a new project! what are you planning to make?"
Marker == "--- Reflection ---\n"
Separator == "\n\n"

(***************************************************************************)
(* Python values                                                           *)
(***************************************************************************)
None == [some |-> FALSE, text |-> ""]
Str(s) == [some |-> TRUE, text |-> s]

\* variant: 'if answer is not None:'
Truthy_NotNone(v) == v.some

\* Python truthiness of a str-or-None value
Truthy(v) == v.some /\ v.text # ""

\* dict.get(key, default) on a string-valued mapping
DictGet(d, key, default) == IF key \in DOMAIN d THEN d[key] ELSE default

\* d[key] = value
DictSet(d, key, value) ==
    [k \in (DOMAIN d) \cup {key} |-> IF k = key THEN value ELSE d[k]]

EmptyDict == [k \in {} |-> ""]

\* truthiness of self.metadata (None and the empty mapping are falsy)
MetadataTruthy(m) == DOMAIN m # {}

Description(m) == DictGet(m, "description", "")

(***************************************************************************)
(* Datastore records and _fetch_history                                    *)
(*                                                                         *)
(* A store record is [title, description, timestamp]; title and            *)
(* description are Str(..) or None (key absent); timestamp is a tagged     *)
(* value: absent, a number, or a string.                                   *)
(***************************************************************************)
TsNone == [kind |-> "none", n |-> 0, s |-> ""]
TsNum(n) == [kind |-> "num", n |-> n, s |-> ""]
TsStr(s) == [kind |-> "str", n |-> 0, s |-> s]

\* characters in code-point order, for str comparison and float() parsing
Alphabet == "0123456789abcdefghijklmnopqrstuvwxyz"
Digits == "0123456789"

Ord(c) == CHOOSE i \in 1..Len(Alphabet) : SubSeq(Alphabet, i, i) = c

StrHead(s) == SubSeq(s, 1, 1)
StrTail(s) == SubSeq(s, 2, Len(s))

\* Python's str < str
RECURSIVE StrLess(_, _)
StrLess(s, t) ==
    IF t = "" THEN FALSE
    ELSE IF s = "" THEN TRUE
    ELSE IF StrHead(s) = StrHead(t) THEN StrLess(StrTail(s), StrTail(t))
    ELSE Ord(StrHead(s)) < Ord(StrHead(t))

\* key=lambda x: x.get('timestamp', 0)
SortKey(entry) ==
    IF entry.timestamp.kind = "none" THEN TsNum(0) ELSE entry.timestamp

\* k1 < k2 on two keys of the same type
KeyLess(k1, k2) ==
    IF k1.kind = "num" THEN k1.n < k2.n ELSE StrLess(k1.s, k2.s)

\* list.sort raises TypeError when a str key meets a number key
SortRaises(results) ==
    \E i, j \in 1..Len(results) :
        SortKey(results[i]).kind # SortKey(results[j]).kind

RECURSIVE InsertDesc(_, _)
InsertDesc(x, sorted) ==
    IF sorted = <<>> THEN <<x>>
    ELSE IF KeyLess(SortKey(Head(sorted)), SortKey(x)) THEN <<x>> \o sorted
    ELSE <<Head(sorted)>> \o InsertDesc(x, Tail(sorted))

\* results.sort(key=..., reverse=True): stable, descending
RECURSIVE SortDesc(_)
SortDesc(results) ==
    IF results = <<>> THEN <<>>
    ELSE InsertDesc(results[Len(results)],
                    SortDesc(SubSeq(results, 1, Len(results) - 1)))

IsDigit(c) == \E i \in 1..Len(Digits) : SubSeq(Digits, i, i) = c
DigitVal(c) == (CHOOSE i \in 1..Len(Digits) : SubSeq(Digits, i, i) = c) - 1

IsNumeric(s) == s # "" /\ \A i \in 1..Len(s) : IsDigit(SubSeq(s, i, i))

RECURSIVE StrToNat(_)
StrToNat(s) ==
    IF s = "" THEN 0
    ELSE 10 * StrToNat(SubSeq(s, 1, Len(s) - 1)) + DigitVal(SubSeq(s, Len(s), Len(s)))

\* float(entry.get('timestamp', 0)); ok = FALSE is ValueError
ParseFloat(ts) ==
    IF ts.kind = "none" THEN [ok |-> TRUE, val |-> 0]
    ELSE IF ts.kind = "num" THEN [ok |-> TRUE, val |-> ts.n]
    ELSE IF IsNumeric(ts.s) THEN [ok |-> TRUE, val |-> StrToNat(ts.s)]
    ELSE [ok |-> FALSE, val |-> 0]

TwoDigits(n) == IF n < 10 THEN "0" \o ToString(n) ELSE ToString(n)

\* time.ctime(t) for 0 <= t < 86400, in UTC
CTime(t) ==
    "Thu Jan  1 " \o TwoDigits(t \div 3600) \o ":" \o TwoDigits((t \div 60) % 60)
        \o ":" \o TwoDigits(t % 60) \o " 1970"

\* the summary dict built for one entry
Summary(entry) ==
    [title |-> Str(IF entry.title.some THEN entry.title.text ELSE "Untitled"),
     description |-> Str(IF entry.description.some THEN entry.description.text ELSE ""),
     timestamp |-> ParseFloat(entry.timestamp).val,
     time |-> Str(CTime(ParseFloat(entry.timestamp).val))]

Min(a, b) == IF a < b THEN a ELSE b

\* results[:5]
FirstEntries(results) == SubSeq(results, 1, Min(HistoryLimit, Len(results)))

\* variant: the handler lets the exception go on to the caller
ExceptReturn_Reraise(queried) == [raised |-> TRUE, value |-> <<>>, queried |-> queried]

\* 'except Exception as e: ... return []'
ExceptReturn(queried) == [raised |-> FALSE, value |-> <<>>, queried |-> queried]

\* self._fetch_history(): the returned list, whether an exception left the
\* method, and whether datastore.find was called
FetchHistory(bid, queryRaises, results) ==
    IF bid = "" THEN [raised |-> FALSE, value |-> <<>>, queried |-> FALSE]
    ELSE IF queryRaises THEN ExceptReturn(TRUE)
    ELSE IF SortRaises(results) THEN ExceptReturn(TRUE)
    ELSE LET top == FirstEntries(SortDesc(results)) IN
         IF \E i \in 1..Len(top) : ~ParseFloat(top[i].timestamp).ok
         THEN ExceptReturn(TRUE)
         ELSE [raised |-> FALSE,
               value |-> [i \in 1..Len(top) |-> Summary(top[i])],
               queried |-> TRUE]

(***************************************************************************)
(* ReflectionService._mock_api_response: the prompt for a context          *)
(***************************************************************************)
\* last_entry.get(key, default) on an entry whose value is Str(..) or None
EntryGet(v, default) == IF v.some THEN v.text ELSE default

ComparisonPrompt(last_entry) ==
    "I see you worked on '" \o EntryGet(last_entry.title, "this activity")
        \o "' previously. How is your work today different from what you did on "
        \o EntryGet(last_entry.time, "before") \o "?"

\* history[1] of Python is history[2] here
PromptIndex == 2

\* variant: the most recent entry (history[0]) is used
GeneratePrompt_First(history) ==
    IF Len(history) > 1 THEN ComparisonPrompt(Head(history))
    ELSE GenericPrompt

GeneratePrompt(history) ==
    IF Len(history) > 1 THEN ComparisonPrompt(history[PromptIndex])
    ELSE GenericPrompt

(***************************************************************************)
(* The handlers, as functions on the instance state s                      *)
(***************************************************************************)
State ==
    [reflection_complete |-> reflection_complete, metadata |-> metadata,
     timers |-> timers, dialogs |-> dialogs, shutdownLog |-> shutdownLog,
     saveCount |-> saveCount, fetchCount |-> fetchCount,
     queryCount |-> queryCount, excCount |-> excCount, effects |-> <<>>]

RemoveAt(seq, i) == SubSeq(seq, 1, i - 1) \o SubSeq(seq, i + 1, Len(seq))

\* variant: the shutdown path marks the reflection as complete
ActivityClose_MarksComplete(s, skip_save) ==
    [s EXCEPT !.shutdownLog =
                 Append(@, [skip_save |-> skip_save, flag |-> s.reflection_complete]),
              !.reflection_complete = TRUE,
              !.effects = Append(@, "shutdown")]

\* activity.Activity.close(self, skip_save=skip_save): the host's shutdown;
\* the log keeps the argument and the flag at the time of the call
ActivityClose(s, skip_save) ==
    [s EXCEPT !.shutdownLog =
                 Append(@, [skip_save |-> skip_save, flag |-> s.reflection_complete]),
              !.effects = Append(@, "shutdown")]

\* variants of the guard of close(), each a plausible slip
CloseTakesShutdown_Always(flag, skip_save) == TRUE
CloseTakesShutdown_FlagOnly(flag, skip_save) == flag
CloseTakesShutdown_SkipOnly(flag, skip_save) == skip_save

\* 'if self._reflection_complete or skip_save:'
CloseTakesShutdown(flag, skip_save) == flag \/ skip_save

\* variant: a request is dropped while another one is waiting for its timer
GetReflectionPrompt_OneAtATime(s, context) ==
    IF s.timers # <<>> THEN s ELSE [s EXCEPT !.timers = Append(@, context)]

\* GLib.timeout_add_seconds(1, self._mock_api_response, context, callback)
GetReflectionPrompt(s, context) ==
    [s EXCEPT !.timers = Append(@, context), !.effects = Append(@, "timer")]

\* the query or a record of the store makes _fetch_history fail
\* (kept with the context to tell the flows apart, as is 'returned': the
\* store was queried and returned its records; the code reads neither)
FetchFails(bid, queryRaises, results) ==
    \/ bid = ""
    \/ queryRaises
    \/ \E i \in 1..Len(results) :
          /\ results[i].timestamp.kind = "str"
          /\ ~IsNumeric(results[i].timestamp.s)
    \/ SortRaises(results)

\* HelloWorldActivity.close(skip_save)
Close(s, skip_save, bid, queryRaises, results) ==
    IF CloseTakesShutdown(s.reflection_complete, skip_save)
    THEN ActivityClose(s, skip_save)
    ELSE LET fh == FetchHistory(bid, queryRaises, results)
             s1 == [s EXCEPT !.fetchCount = @ + 1,
                             !.queryCount = @ + (IF fh.queried THEN 1 ELSE 0),
                             !.effects = Append(@, "fetch")]
         IN  IF fh.raised
             THEN [s1 EXCEPT !.excCount = @ + 1]
             ELSE GetReflectionPrompt(s1,
                      [history |-> fh.value,
                       fetchFailed |-> FetchFails(bid, queryRaises, results),
                       returned |-> bid # "" /\ ~queryRaises])

\* variant: the prompt callback constructs no dialog
ShowReflectionUi_Dropped(s, prompt, context) == s

\* self._show_reflection_ui(prompt): a dialog is constructed and shown
\* (the context is kept with the dialog to tell the flows apart)
ShowReflectionUi(s, prompt, context) ==
    [s EXCEPT !.dialogs = Append(@, [question |-> prompt, context |-> context]),
              !.effects = Append(@, "dialog")]

\* ReflectionService._mock_api_response: timer i fires once ('return False')
MockApiResponse(s, i) ==
    LET context == s.timers[i] IN
    ShowReflectionUi([s EXCEPT !.timers = RemoveAt(@, i),
                               !.effects = Append(@, "prompt")],
                     GeneratePrompt(context.history), context)

\* variants: the old description is dropped / the separator is forgotten
NewDescription_Overwrite(description, answer) == Marker \o answer
NewDescription_NoSeparator(description, answer) == description \o Marker \o answer

\* the description written back for a truthy answer
NewDescription(description, answer) ==
    (IF description # "" THEN description \o Separator ELSE description)
        \o Marker \o answer

\* variants: one of the two tests is forgotten
AnswerIsSaved_MetadataOnly(answer, m) == MetadataTruthy(m)
AnswerIsSaved_AnswerOnly(answer, m) == Truthy(answer)

\* 'if answer:' and 'if self.metadata:'
AnswerIsSaved(answer, m) == Truthy(answer) /\ MetadataTruthy(m)

\* variant: the real close is called before the answer is saved
OnReflectionResponse_CloseFirst(s, answer, bid, queryRaises, results) ==
    LET s0 == [s EXCEPT !.effects = Append(@, "response")]
        s1 == [s0 EXCEPT !.reflection_complete = TRUE,
                         !.effects = Append(@, "flag")]
        s2 == Close(s1, FALSE, bid, queryRaises, results)
    IN  IF AnswerIsSaved(answer, s2.metadata)
        THEN [s2 EXCEPT !.metadata =
                            DictSet(@, "description",
                                    NewDescription(Description(@), answer.text)),
                        !.saveCount = @ + 1,
                        !.effects = @ \o <<"description", "save">>]
        ELSE s2

\* HelloWorldActivity._on_reflection_response(answer)
OnReflectionResponse(s, answer, bid, queryRaises, results) ==
    LET s0 == [s EXCEPT !.effects = Append(@, "response")]
        s1 == IF AnswerIsSaved(answer, s0.metadata)
              THEN [s0 EXCEPT !.metadata =
                                DictSet(@, "description",
                                        NewDescription(Description(@), answer.text)),
                              !.saveCount = @ + 1,
                              !.effects = @ \o <<"description", "save">>]
              ELSE s0
        s2 == [s1 EXCEPT !.reflection_complete = TRUE,
                         !.effects = Append(@, "flag")]
    IN  Close(s2, FALSE, bid, queryRaises, results)

\* ReflectionDialog._on_save: callback(text), then destroy()
OnSave(s, i, text, bid, queryRaises, results) ==
    LET s1 == OnReflectionResponse(s, Str(text), bid, queryRaises, results)
    IN  [s1 EXCEPT !.dialogs = RemoveAt(@, i), !.effects = Append(@, "destroy")]

\* variant: Skip hands the callback a text instead of None
OnSkip_AsSave(s, i, bid, queryRaises, results) ==
    OnSave(s, i, "skipped", bid, queryRaises, results)

\* ReflectionDialog._on_skip: callback(None), then destroy()
OnSkip(s, i, bid, queryRaises, results) ==
    LET s1 == OnReflectionResponse(s, None, bid, queryRaises, results)
    IN  [s1 EXCEPT !.dialogs = RemoveAt(@, i), !.effects = Append(@, "destroy")]

(***************************************************************************)
(* Inputs                                                                  *)
(***************************************************************************)
Texts == {"", "hello", "test"}

BundleIds == {"", "org.sugarlabs.HelloWorld"}

RecArt ==
    [title |-> Str("Art Project"), description |-> Str("drawing"),
     timestamp |-> TsNum(2)]
RecBare == [title |-> None, description |-> None, timestamp |-> TsNone]
RecStr == [title |-> Str("Maths"), description |-> None, timestamp |-> TsStr("7")]
RecBad == [title |-> Str("Notes"), description |-> None, timestamp |-> TsStr("x")]

RecordPool == {RecArt, RecBare, RecStr, RecBad}

Stores == UNION {[1..n -> RecordPool] : n \in 0..MaxRecords}

InitialMetadata ==
    {EmptyDict,
     "title" :> "HelloWorld",
     ("title" :> "HelloWorld") @@ ("description" :> "first draft"),
     ("title" :> "HelloWorld") @@ ("description" :> (Marker \o "hello"))}

(***************************************************************************)
(* The state machine                                                       *)
(***************************************************************************)
Event(op, skip_save, answer) ==
    [op |-> op, skip_save |-> skip_save, answer |-> answer]

Init ==
    /\ reflection_complete = FALSE
    /\ metadata \in InitialMetadata
    /\ timers = <<>>
    /\ dialogs = <<>>
    /\ shutdownLog = <<>>
    /\ saveCount = 0
    /\ fetchCount = 0
    /\ queryCount = 0
    /\ excCount = 0
    /\ closeCount = 0
    /\ store \in Stores
    /\ bundle_id \in BundleIds
    /\ answers = <<>>
    /\ effects = <<>>
    /\ last = Event("init", FALSE, None)

Apply(s) ==
    /\ reflection_complete' = s.reflection_complete
    /\ metadata' = s.metadata
    /\ timers' = s.timers
    /\ dialogs' = s.dialogs
    /\ shutdownLog' = s.shutdownLog
    /\ saveCount' = s.saveCount
    /\ fetchCount' = s.fetchCount
    /\ queryCount' = s.queryCount
    /\ excCount' = s.excCount
    /\ effects' = s.effects

\* the host or the stop button (_on_stop_clicked) calls close(skip_save)
CloseRequest ==
    /\ closeCount < MaxCloses
    /\ \E skip_save \in BOOLEAN, queryRaises \in BOOLEAN :
          /\ Apply(Close(State, skip_save, bundle_id, queryRaises, store))
          /\ last' = Event("close", skip_save, None)
    /\ closeCount' = closeCount + 1
    /\ UNCHANGED <<store, bundle_id, answers>>

\* the main loop runs a pending timeout
TimerFires ==
    /\ \E i \in 1..Len(timers) : Apply(MockApiResponse(State, i))
    /\ last' = Event("timer", FALSE, None)
    /\ UNCHANGED <<closeCount, store, bundle_id, answers>>

\* the user clicks 'Save Reflection' on a shown dialog
SaveClicked ==
    /\ \E i \in 1..Len(dialogs), text \in Texts, queryRaises \in BOOLEAN :
          /\ Apply(OnSave(State, i, text, bundle_id, queryRaises, store))
          /\ last' = Event("save", FALSE, Str(text))
          /\ answers' = Append(answers, text)
    /\ UNCHANGED <<closeCount, store, bundle_id>>

\* the user clicks 'Skip' on a shown dialog
SkipClicked ==
    /\ \E i \in 1..Len(dialogs), queryRaises \in BOOLEAN :
          Apply(OnSkip(State, i, bundle_id, queryRaises, store))
    /\ last' = Event("skip", FALSE, None)
    /\ UNCHANGED <<closeCount, store, bundle_id, answers>>

\* the user closes a dialog window through the window manager: no handler
\* is connected to delete-event, so Gtk destroys the window
WindowClosed ==
    /\ \E i \in 1..Len(dialogs) : dialogs' = RemoveAt(dialogs, i)
    /\ effects' = <<"destroy">>
    /\ last' = Event("dismiss", FALSE, None)
    /\ UNCHANGED <<reflection_complete, metadata, timers, shutdownLog,
                   saveCount, fetchCount, queryCount, excCount, closeCount,
                   store, bundle_id, answers>>

Next ==
    \/ CloseRequest
    \/ TimerFires
    \/ SaveClicked
    \/ SkipClicked
    \/ WindowClosed

Spec == Init /\ [][Next]_vars

\* every shown dialog is answered with Save or Skip, every timer fires
NextAnswered ==
    \/ CloseRequest
    \/ TimerFires
    \/ SaveClicked
    \/ SkipClicked

\* the store only decides the history handed to the prompt: an empty one,
\* one that yields a comparison prompt, and one whose fetch fails
LiveStores == {<<>>, <<RecBare, RecArt>>, <<RecBad>>}

LiveInit == Init /\ store \in LiveStores

LiveSpec ==
    /\ LiveInit
    /\ [][NextAnswered]_vars
    /\ WF_vars(TimerFires)
    /\ WF_vars(SaveClicked \/ SkipClicked)

(***************************************************************************)
(* String helpers for the properties                                       *)
(***************************************************************************)
IsPrefix(p, s) == Len(p) <= Len(s) /\ SubSeq(s, 1, Len(p)) = p

EndsWith(s, t) == Len(t) <= Len(s) /\ SubSeq(s, Len(s) - Len(t) + 1, Len(s)) = t

Contains(s, t) ==
    \E i \in 1..(Len(s) - Len(t) + 1) : SubSeq(s, i, i + Len(t) - 1) = t


(***************************************************************************)
(* Properties                                                              *)
(***************************************************************************)
ShutdownCount == Len(shutdownLog)

\* the step just taken was a call close(skip_save) from outside
CloseStep(skip_save) == last'.op = "close" /\ last'.skip_save = skip_save

\* C1: the real shutdown procedure (the host's Activity.close) is invoked
\* at most once per activity instance, and exactly once when the flow has
\* completed (the completion flag is set).
C1_ShutdownOnce ==
    /\ ShutdownCount <= 1
    /\ reflection_complete => ShutdownCount = 1

\* C2: every invocation of the real shutdown happens in a close call that
\* finds the completion flag true or has skip_save true, and a
\* close(skip_save=False) that finds the flag false invokes no shutdown.
C2_ShutdownOnlyWhenAllowed ==
    [][/\ \A k \in (ShutdownCount + 1)..Len(shutdownLog') :
              shutdownLog'[k].flag \/ shutdownLog'[k].skip_save
       /\ (CloseStep(FALSE) /\ ~reflection_complete)
              => shutdownLog' = shutdownLog]_vars

C2_Witness ==
    /\ last.op = "close" /\ ~last.skip_save
    /\ ~reflection_complete
    /\ ShutdownCount = 1
    /\ Len(timers) = 1

\* C3: close(skip_save=True), in any state, invokes the real shutdown with
\* skip_save=True within the call and does nothing of the reflection flow:
\* no history fetch, no store query, no timer, no dialog, no change of the
\* metadata, no save(), no change of the flag.
C3_SkipSaveBypasses ==
    [][CloseStep(TRUE) =>
          /\ shutdownLog' = Append(shutdownLog,
                 [skip_save |-> TRUE, flag |-> reflection_complete])
          /\ fetchCount' = fetchCount
          /\ queryCount' = queryCount
          /\ timers' = timers
          /\ dialogs' = dialogs
          /\ metadata' = metadata
          /\ saveCount' = saveCount
          /\ reflection_complete' = reflection_complete]_vars

\* close(skip_save=True) arrived while a flow was waiting for its timer
C3_Witness ==
    /\ last.op = "close" /\ last.skip_save
    /\ ~reflection_complete
    /\ Len(timers) = 1 /\ fetchCount = 1
    /\ ShutdownCount = 1 /\ shutdownLog[1].skip_save

\* C4: metadata.description is append-only: in every step its old value is
\* a prefix of its new value.
C4_DescriptionAppendOnly ==
    [][IsPrefix(Description(metadata), Description(metadata'))]_vars

C4_Witness ==
    /\ last.op = "save"
    /\ Description(metadata) = "first draft\n\n--- Reflection ---\nhello"

\* the reflections for a sequence of saved answers, joined by the separator
RECURSIVE JoinReflections(_)
JoinReflections(as) ==
    IF as = <<>> THEN ""
    ELSE IF Len(as) = 1 THEN Marker \o as[1]
    ELSE JoinReflections(SubSeq(as, 1, Len(as) - 1)) \o Separator
             \o Marker \o as[Len(as)]

NonEmptyOnly(as) == SelectSeq(as, LAMBDA a : a # "")

C6_SkipCompletesWithoutSaving ==
    [][last'.op = "skip" =>
          /\ metadata' = metadata
          /\ saveCount' = saveCount
          /\ reflection_complete'
          /\ Len(shutdownLog') = ShutdownCount + 1
          /\ ~shutdownLog'[Len(shutdownLog')].skip_save]_vars

C6_Witness ==
    /\ last.op = "skip"
    /\ reflection_complete
    /\ ShutdownCount = 1
    /\ Description(metadata) = "first draft"

\* C7: once the flag is true it stays true, and every later close request,
\* whatever its skip_save, invokes the real shutdown at once without a
\* history fetch, a store query, a timer or a dialog.
C7_DoneIsPermanent ==
    [][reflection_complete =>
          /\ reflection_complete'
          /\ \A b \in BOOLEAN : CloseStep(b) =>
                /\ shutdownLog' = Append(shutdownLog,
                       [skip_save |-> b, flag |-> TRUE])
                /\ fetchCount' = fetchCount
                /\ queryCount' = queryCount
                /\ timers' = timers
                /\ dialogs' = dialogs]_vars

C7_Witness ==
    /\ reflection_complete
    /\ last.op = "close" /\ ~last.skip_save
    /\ ShutdownCount = 2
    /\ fetchCount = 1

\* a close(skip_save=False) has just found the flag false
FlowStarted == last.op = "close" /\ ~last.skip_save /\ ~reflection_complete

FlowDone == reflection_complete /\ ShutdownCount > 0

\* C8: when every timer fires and every dialog is answered with Save or
\* Skip, a close(skip_save=False) that finds the flag false leads to the
\* flag being true and the real shutdown invoked; and the flag becomes true
\* in no step other than a Save or a Skip.
C8_FlowCompletes ==
    /\ FlowStarted ~> FlowDone
    /\ [][(~reflection_complete /\ reflection_complete')
              => last'.op \in {"save", "skip"}]_vars

C8_Witness ==
    /\ FlowDone
    /\ last.op = "save"
    /\ fetchCount = 1
    /\ ShutdownCount = 1

\* C9: a history fetch that meets a missing bundle id, a failing query or
\* a record that cannot be sorted or parsed returns the empty history: no
\* exception leaves close(), the timer is scheduled by the same call, the
\* dialog of that flow shows the generic prompt, and without a bundle id
\* the store is never queried.
C9_FetchNeverFails ==
    [][/\ excCount' = 0
       /\ (CloseStep(FALSE) /\ ~reflection_complete)
              => /\ Len(timers') = Len(timers) + 1
                 /\ fetchCount' = fetchCount + 1
       /\ \A k \in 1..Len(timers') :
              timers'[k].fetchFailed => timers'[k].history = <<>>
       /\ \A k \in 1..Len(dialogs') :
              dialogs'[k].context.fetchFailed
                  => dialogs'[k].question =
                         "This looks like a new project! what are you planning to make?"
       /\ bundle_id = "" => queryCount' = 0]_vars

\* a dialog with the generic prompt for a store holding an unparseable
\* record, reached through a query of the store
C9_Witness ==
    /\ Len(dialogs) = 1
    /\ dialogs[1].context.fetchFailed
    /\ dialogs[1].question = GenericPrompt
    /\ bundle_id # ""
    /\ queryCount = 1
    /\ Len(store) = 2 /\ store[1] = RecStr /\ store[2] = RecBad

(***************************************************************************)
(* Prompt generation on arbitrary contexts:                                *)
(* ReflectionService.get_reflection_prompt(context, callback) has been     *)
(* called once with a context whose entries may lack 'title' and 'time'.   *)
(***************************************************************************)
EntryFull ==
    [title |-> Str("Art Project"), description |-> Str("drawing"),
     timestamp |-> 2, time |-> Str(CTime(2))]
EntryBare ==
    [title |-> None, description |-> None, timestamp |-> 0, time |-> None]
EntryNoTime ==
    [title |-> Str("Maths"), description |-> None, timestamp |-> 7, time |-> None]
EntryNoTitle ==
    [title |-> None, description |-> None, timestamp |-> 7, time |-> Str(CTime(7))]

EntryPool == {EntryFull, EntryBare, EntryNoTime, EntryNoTitle}

Histories == UNION {[1..n -> EntryPool] : n \in 0..MaxHistory}

PromptInit ==
    /\ reflection_complete = FALSE
    /\ metadata = ("title" :> "HelloWorld")
    /\ \E h \in Histories : timers = <<[history |-> h, fetchFailed |-> FALSE, returned |-> FALSE]>>
    /\ dialogs = <<>>
    /\ shutdownLog = <<>>
    /\ saveCount = 0
    /\ fetchCount = 0
    /\ queryCount = 0
    /\ excCount = 0
    /\ closeCount = 1
    /\ store = <<>>
    /\ bundle_id = "org.sugarlabs.HelloWorld"
    /\ answers = <<>>
    /\ effects = <<>>
    /\ last = Event("init", FALSE, None)

PromptSpec == PromptInit /\ [][Next]_vars

TitleOf(entry) == IF entry.title.some THEN entry.title.text ELSE "this activity"
TimeOf(entry) == IF entry.time.some THEN entry.time.text ELSE "before"

\* C10: the prompt is a function of the history alone: for 0 or 1 entries
\* it is the fixed generic prompt; for 2 or more entries it is the
\* comparison prompt that quotes the title of the second entry (or "this
\* activity") and ends with its time string (or "before"), and it is the
\* same whatever the first entry is.
C10_PromptFromSecondEntry ==
    \A k \in 1..Len(dialogs) :
        LET h == dialogs[k].context.history
            q == dialogs[k].question
        IN  /\ Len(h) <= 1 =>
                  q = "This looks like a new project! what are you planning to make?"
            /\ Len(h) >= 2 =>
                  /\ IsPrefix("I see you worked on '" \o TitleOf(h[2]) \o "' previously.", q)
                  /\ EndsWith(q, "what you did on " \o TimeOf(h[2]) \o "?")
                  /\ Contains(q, TitleOf(h[2]))
                  /\ Contains(q, TimeOf(h[2]))
                  /\ \A e \in EntryPool :
                        q = GeneratePrompt([h EXCEPT ![1] = e])
                  /\ TitleOf(h[1]) # TitleOf(h[2]) => ~Contains(q, TitleOf(h[1]))

\* a dialog showing the comparison prompt for a second entry without
\* 'title' and 'time', behind a first entry that has both
C10_Witness ==
    /\ Len(dialogs) = 1
    /\ Len(dialogs[1].context.history) = 3
    /\ dialogs[1].context.history[1] = EntryFull
    /\ dialogs[1].context.history[2] = EntryBare
    /\ dialogs[1].question =
           "I see you worked on 'this activity' previously. How is your work today different from what you did on before?"

(***************************************************************************)
(* Properties of the history, the resolutions and the order of a flow      *)
(***************************************************************************)
\* the timestamp a record counts with: its number, or 0 when it is missing
\* or cannot be parsed
EffectiveTs(rec) ==
    IF ParseFloat(rec.timestamp).ok THEN ParseFloat(rec.timestamp).val ELSE 0

CountTs(n, ts, v) == Cardinality({i \in 1..n : ts[i] = v})
CountAbove(n, ts, v) == Cardinality({i \in 1..n : ts[i] > v})

\* h holds the newest (at most five) of the records, newest first
NewestFirst(h, records) ==
    LET want == [i \in 1..Len(records) |-> EffectiveTs(records[i])]
        got == [i \in 1..Len(h) |-> h[i].timestamp]
        room(v) == 5 - CountAbove(Len(want), want, v)
    IN  /\ Len(h) = (IF Len(records) < 5 THEN Len(records) ELSE 5)
        /\ \A i, j \in 1..Len(h) : i < j => got[i] >= got[j]
        /\ \A i \in 1..Len(want) :
              CountTs(Len(got), got, want[i]) =
                  (IF room(want[i]) <= 0 THEN 0
                   ELSE IF CountTs(Len(want), want, want[i]) < room(want[i])
                        THEN CountTs(Len(want), want, want[i])
                   ELSE room(want[i]))

\* C11: whatever records the store returns, the fetched history has at
\* most 5 entries, is ordered by timestamp descending, holds the records
\* with the largest timestamps, and counts a record whose timestamp is
\* missing or unparseable as timestamp 0 instead of failing.
C11_HistoryNewestFive ==
    \A k \in 1..Len(timers) :
        timers[k].returned => NewestFirst(timers[k].history, store)

\* C12 as stated: Save with an empty text field is an answer like any
\* other: the separator and the empty answer are appended to the
\* description and the metadata is persisted.
C12_EmptySaveAppends ==
    [][(last'.op = "save" /\ last'.answer = Str("") /\ MetadataTruthy(metadata)) =>
          /\ Description(metadata') # Description(metadata)
          /\ EndsWith(Description(metadata'), "--- Reflection ---\n")
          /\ saveCount' = saveCount + 1]_vars

\* C12, amended: Save with an empty text field hands the callback the
\* empty string, and the handler treats it like Skip: the metadata is not
\* changed and save() is not called, while the flag is set and the real
\* shutdown invoked; the description changes only in a Save step with a
\* non-empty answer.
C12_EmptySaveIsSkipped ==
    [][/\ (last'.op = "save" /\ last'.answer.text = "") =>
              /\ last'.answer.some
              /\ metadata' = metadata
              /\ saveCount' = saveCount
              /\ reflection_complete'
              /\ Len(shutdownLog') = ShutdownCount + 1
       /\ Description(metadata') # Description(metadata) =>
              /\ last'.op = "save"
              /\ last'.answer.text # ""]_vars

C12_Witness ==
    /\ last.op = "save"
    /\ last.answer = Str("")
    /\ answers = <<"">>
    /\ reflection_complete
    /\ saveCount = 0
    /\ Description(metadata) = "first draft"

\* flows that wait for their timer or for the answer to their dialog
InFlight == Len(timers) + Len(dialogs)

\* C13: the completion flag is the only guard of close(): a
\* close(skip_save=False) that finds the flag false while an earlier flow
\* still waits for its timer or its answer starts another flow (the
\* history is fetched again and one more timer is scheduled), and each
\* pending timer shows a dialog of its own when it fires, so that two
\* flows are in flight at once.
C13_SecondFlowStarts ==
    [][/\ (CloseStep(FALSE) /\ ~reflection_complete /\ InFlight >= 1) =>
              /\ fetchCount' = fetchCount + 1
              /\ Len(timers') = Len(timers) + 1
              /\ dialogs' = dialogs
              /\ InFlight' >= 2
       /\ last'.op = "timer" =>
              /\ Len(timers') = Len(timers) - 1
              /\ Len(dialogs') = Len(dialogs) + 1]_vars

\* two dialogs are open at once, each from a history fetch of its own
C13_Witness ==
    /\ ~reflection_complete
    /\ Len(dialogs) = 2
    /\ timers = <<>>
    /\ fetchCount = 2
    /\ ShutdownCount = 0

ResolutionStep == last'.op \in {"save", "skip"}

\* C14 as stated: the description is modified only in a step that handles
\* a dialog resolution, and every completed flow (every resolution)
\* modifies it.
C14_ModifiedOncePerFlow ==
    [][/\ metadata' # metadata => ResolutionStep
       /\ ResolutionStep => Description(metadata') # Description(metadata)]_vars

\* C14, amended: the metadata is modified only in a step that handles a
\* dialog resolution, and at most once per flow: a Save with a non-empty
\* answer on an existing metadata appends exactly one reflection and calls
\* save() once, every other resolution leaves the metadata as it is; the
\* modifications never outnumber the flows that have been resolved.
C14_ModifiedAtMostOncePerFlow ==
    [][/\ metadata' # metadata =>
              /\ last'.op = "save"
              /\ Len(dialogs') = Len(dialogs) - 1
              /\ saveCount' = saveCount + 1
              /\ Description(metadata') =
                     (IF Description(metadata) = "" THEN ""
                      ELSE Description(metadata) \o "\n\n")
                         \o "--- Reflection ---\n" \o last'.answer.text
       /\ (last'.op = "save" /\ Truthy(last'.answer) /\ MetadataTruthy(metadata))
              => metadata' # metadata
       /\ last'.op = "skip" => metadata' = metadata /\ saveCount' = saveCount
       /\ ~ResolutionStep => saveCount' = saveCount
       /\ saveCount' + Len(timers') + Len(dialogs') <= fetchCount']_vars

\* one flow, completed by Save, has modified the description once
C14_Witness ==
    /\ last.op = "save"
    /\ fetchCount = 1
    /\ saveCount = 1
    /\ reflection_complete
    /\ Description(metadata) = "first draft\n\n--- Reflection ---\ntest"

\* how often a handler call is recorded in the effects of a step
Occurrences(es, tag) == Cardinality({i \in 1..Len(es) : es[i] = tag})

\* C15: every dialog that goes away has resolved its callback exactly
\* once, whichever user action ended it (Save, Skip or closing the
\* window), and it is destroyed right after the callback.
C15_EveryDialogResolvesOnce ==
    [][Len(dialogs') < Len(dialogs) =>
          /\ Len(dialogs') = Len(dialogs) - 1
          /\ Occurrences(effects', "response") = 1
          /\ effects'[Len(effects')] = "destroy"]_vars

\* C16: every flow keeps the order fetch, timer, prompt, dialog,
\* resolution, (description, save,) flag, shutdown: close() schedules the
\* timer and returns without showing a dialog; a timer that fires is
\* removed and shows one dialog with the prompt of its own context, and
\* every scheduled timer does fire; a dialog appears in no other step; and
\* in a resolution the answer is saved before the flag is set and the
\* flag is set before the real shutdown is invoked.
C16_FlowOrder ==
    /\ [][/\ (CloseStep(FALSE) /\ ~reflection_complete) =>
                 /\ effects' = <<"fetch", "timer">>
                 /\ dialogs' = dialogs
          /\ last'.op = "timer" =>
                 /\ effects' = <<"prompt", "dialog">>
                 /\ \E i \in 1..Len(timers) :
                       /\ timers' = RemoveAt(timers, i)
                       /\ dialogs' = Append(dialogs,
                              [question |-> GeneratePrompt(timers[i].history),
                               context |-> timers[i]])
          /\ Len(dialogs') > Len(dialogs) => last'.op = "timer"
          /\ Len(timers') > Len(timers) => last'.op = "close"
          /\ ResolutionStep =>
                 /\ effects' \in
                        {<<"response", "description", "save", "flag", "shutdown", "destroy">>,
                         <<"response", "flag", "shutdown", "destroy">>}
                 /\ metadata' # metadata => "save" \in {effects'[i] : i \in 1..Len(effects')}
                 /\ shutdownLog'[Len(shutdownLog')].flag]_vars
    /\ []<>(timers = <<>>)

\* a flow that went through all its stages and saved its answer
C16_Witness ==
    /\ effects = <<"response", "description", "save", "flag", "shutdown", "destroy">>
    /\ fetchCount = 1
    /\ queryCount = 1
    /\ saveCount = 1
    /\ ShutdownCount = 1
    /\ timers = <<>> /\ dialogs = <<>>

\* C17: the flag starts false, becomes true only in the step that handles
\* a dialog resolution (so it is false as long as no dialog was resolved,
\* whatever close requests arrived), is not changed by a
\* close(skip_save=True), never goes back to false, and once it is true no
\* close request fetches the history, queries the store or schedules a
\* timer.
C17_FlagSetOnceByResolution ==
    /\ ~reflection_complete
    /\ [][/\ reflection_complete' # reflection_complete =>
                 /\ ~reflection_complete
                 /\ ResolutionStep
                 /\ Occurrences(effects', "flag") = 1
          /\ CloseStep(TRUE) => reflection_complete' = reflection_complete
          /\ ~ResolutionStep => Occurrences(effects', "flag") = 0
          /\ reflection_complete =>
                 /\ fetchCount' = fetchCount
                 /\ queryCount' = queryCount
                 /\ Len(timers') <= Len(timers)]_vars

\* the flag was set by a Skip after a close(skip_save=True) had already
\* invoked the real shutdown with the flag still false
C17_Witness ==
    /\ reflection_complete
    /\ last.op = "skip"
    /\ ShutdownCount = 2
    /\ shutdownLog[1].skip_save /\ ~shutdownLog[1].flag
    /\ fetchCount = 1

\* C18: once the real shutdown has been invoked, no later step of the main
\* loop (a timer that fires, a dialog that is answered) shows a dialog,
\* modifies the metadata, calls save() or invokes the real shutdown again.
C18_NothingAfterShutdown ==
    [][(ShutdownCount >= 1 /\ last'.op # "close") =>
          /\ Len(dialogs') <= Len(dialogs)
          /\ metadata' = metadata
          /\ saveCount' = saveCount
          /\ shutdownLog' = shutdownLog]_vars

\* C19: when the metadata is absent or empty, a Save with a non-empty
\* answer writes nothing and calls no save(), but completes the flow as
\* Skip does: the flag is set and the real shutdown invoked with
\* skip_save=False.
C19_NoMetadataDiscardsAnswer ==
    [][(last'.op = "save" /\ Truthy(last'.answer) /\ ~MetadataTruthy(metadata)) =>
          /\ metadata' = metadata
          /\ saveCount' = saveCount
          /\ reflection_complete'
          /\ shutdownLog' = Append(shutdownLog, [skip_save |-> FALSE, flag |-> TRUE])
          /\ effects' = <<"response", "flag", "shutdown", "destroy">>]_vars

C19_Witness ==
    /\ last.op = "save"
    /\ last.answer = Str("hello")
    /\ metadata = EmptyDict
    /\ saveCount = 0
    /\ reflection_complete
    /\ ShutdownCount = 1

====
